---- MODULE Spec2Model ----
(***************************************************************************)
(* Model of the JobTread MCP server (src/main.py): the POST /sse/ JSON-RPC *)
(* dispatcher `sse`, the streamed tool execution `stream_results`, the     *)
(* upstream adapter `call_jobtread_api` with its four request strategies,  *)
(* and the credential lookup `get_jobtread_credentials`.                   *)
(*                                                                         *)
(* Python values are modelled as follows.  A dict is a function from its   *)
(* keys to its values, so that `d.get(k, default)` is Get(d, k, default).  *)
(* None is the string "None".  A JSON value received from the upstream is  *)
(* a tagged record [t, v] because the code inspects its type               *)
(* (isinstance(data, list), the AttributeError of `.get` on a non-dict).   *)
(***************************************************************************)
EXTENDS Integers, Sequences, FiniteSets, TLC

\* ---------------------------------------------------------------- bounds
MaxRecords == 2      \* longest record list an upstream body carries
MaxRequests == 2     \* requests handled in one behaviour

\* ------------------------------------------------------- Python helpers
None == "None"
EmptyDict == <<>>

\* dict.get(key, default)
Get(d, key, default) == IF key \in DOMAIN d THEN d[key] ELSE default

\* a dict literal entry that is present only when `has`
Field(has, key, value) == IF has THEN key :> value ELSE EmptyDict

\* Python's `a or b` on values that are None or strings
PyOr(a, b) == IF a \notin {None, ""} THEN a ELSE b

\* ------------------------------------------------- upstream JSON values
JNull == [t |-> "null"]
JNum(n) == [t |-> "num", v |-> n]
JStr(s) == [t |-> "str", v |-> s]
JList(s) == [t |-> "list", v |-> s]
JObj(f) == [t |-> "obj", v |-> f]
\* the AttributeError of `.get` on a value that is not a dict
Raise == [t |-> "raise"]

\* data.get(key, default) on a JSON value: raises unless data is a dict
DictGet(d, key, default) ==
    IF d.t # "obj" THEN Raise
    ELSE IF key \in DOMAIN d.v THEN d.v[key] ELSE default

\* Python truth value of a JSON value
Truthy(d) ==
    CASE d.t = "null" -> FALSE
      [] d.t = "num" -> d.v # 0
      [] d.t = "str" -> d.v # ""
      [] d.t = "list" -> Len(d.v) > 0
      [] d.t = "obj" -> DOMAIN d.v # {}

\* json.dumps(value, indent=2): the text that serialises the value
JsonDumps(d) == <<"json", d>>

\* ------------------------------------------------------ module constants
DEMO_PROJECTS ==
    JList(<< JObj([id |-> JStr("demo_1"), name |-> JStr("Smith Kitchen Remodel"),
                   budget |-> JNum(50000), status |-> JStr("in_progress")]),
             JObj([id |-> JStr("demo_2"), name |-> JStr("TechCorp Office Renovation"),
                   budget |-> JNum(250000), status |-> JStr("planning")]) >>)

\* the dict JOBTREAD_OPERATIONS in insertion order; each `input` dict in
\* insertion order as well
JOBTREAD_OPERATIONS ==
    << [name |-> "list_jobs", description |-> "List all jobs in the organization",
        input |-> << <<"limit", "integer">>, <<"offset", "integer">> >>,
        method |-> "get_jobs"],
       [name |-> "get_job", description |-> "Get details of a specific job",
        input |-> << <<"job_id", "string">> >>,
        method |-> "get_job_detail"],
       [name |-> "list_customers", description |-> "List all customers",
        input |-> << <<"limit", "integer">>, <<"offset", "integer">> >>,
        method |-> "get_customers"],
       [name |-> "get_customer", description |-> "Get details of a specific customer",
        input |-> << <<"customer_id", "string">> >>,
        method |-> "get_customer_detail"],
       [name |-> "list_documents", description |-> "List documents for a job or customer",
        input |-> << <<"job_id", "string">>, <<"customer_id", "string">> >>,
        method |-> "get_documents"] >>

RegisteredTools == {JOBTREAD_OPERATIONS[j].name : j \in 1..Len(JOBTREAD_OPERATIONS)}

supported_versions == <<"2025-03-26", "2025-06-18">>

\* number of entries of payload_strategies
NumStrategies == 4

\* ----------------------------------------------------------- environment
GrantKeyVars == <<"JOBTREAD_GRANT_KEY", "JOBTREAD_ACCESS_TOKEN",
                  "JOBTREAD_API_KEY", "JOBTREAD_TOKEN">>
OrgIdVars == <<"JOBTREAD_ORG_ID", "JOBTREAD_ORGANIZATION_ID">>
EnvNames == {GrantKeyVars[j] : j \in 1..4} \cup {OrgIdVars[j] : j \in 1..2}

\* os.getenv(name): None when the variable is unset
Getenv(e, name) == e[name]

\* a lookup that tries JOBTREAD_API_KEY before JOBTREAD_ACCESS_TOKEN and the
\* long organization variable before the short one
get_jobtread_credentials_Swapped(e) ==
    [grant_key |-> PyOr(Getenv(e, "JOBTREAD_GRANT_KEY"),
                   PyOr(Getenv(e, "JOBTREAD_API_KEY"),
                   PyOr(Getenv(e, "JOBTREAD_ACCESS_TOKEN"),
                        Getenv(e, "JOBTREAD_TOKEN")))),
     org_id |-> PyOr(Getenv(e, "JOBTREAD_ORGANIZATION_ID"),
                     Getenv(e, "JOBTREAD_ORG_ID"))]

get_jobtread_credentials(e) ==
    [grant_key |-> PyOr(Getenv(e, "JOBTREAD_GRANT_KEY"),
                   PyOr(Getenv(e, "JOBTREAD_ACCESS_TOKEN"),
                   PyOr(Getenv(e, "JOBTREAD_API_KEY"),
                        Getenv(e, "JOBTREAD_TOKEN")))),
     org_id |-> PyOr(Getenv(e, "JOBTREAD_ORG_ID"),
                     Getenv(e, "JOBTREAD_ORGANIZATION_ID"))]

\* a check that lets one half of the pair through
CredentialsMissing_BothOnly(c) == c.grant_key \in {None, ""} /\ c.org_id \in {None, ""}

\* `not grant_key or not org_id`
CredentialsMissing(c) == c.grant_key \in {None, ""} \/ c.org_id \in {None, ""}

\* ------------------------------------------------------ upstream adapter
\* what `await client.post(...)` can produce: an httpx.RequestError
\* (connection failure or timeout), any other exception, or a response
Resp(kind, status, decodes, body) ==
    [kind |-> kind, status |-> status, decodes |-> decodes, body |-> body]

\* record i of an upstream list
Rec(n) == JObj([id |-> JNum(n)])
Records(n) == [j \in 1..n |-> Rec(j)]

EmptyObj == JObj(EmptyDict)
EmptyList == JList(<<>>)

UpstreamBodies ==
    {JNull, Rec(1), EmptyObj}
    \cup {JList(Records(n)) : n \in 0..MaxRecords}
    \cup {JObj([data |-> JList(Records(MaxRecords))]), JObj([data |-> JNull])}
    \cup {JObj([organization |-> JNull]),
          JObj([organization |->
                  JObj([list_jobs |-> JObj([nodes |-> JList(Records(MaxRecords))])])])}

UpstreamResponses ==
    {Resp("request_error", 0, FALSE, JNull), Resp("timeout", 0, FALSE, JNull),
     Resp("unexpected", 0, FALSE, JNull)}
    \cup {Resp("http", s, FALSE, JNull) : s \in {200, 400, 401, 404, 500}}
    \cup {Resp("http", 200, TRUE, b) : b \in UpstreamBodies}

\* strategy["url"] of payload_strategies[i]
StrategyUrl(i, operation) ==
    CASE i = 0 -> <<"https://api.jobtread.com/pave">>
      [] i = 1 -> <<"https://api.jobtread.com/pave">>
      [] i = 2 -> <<"https://api.jobtread.com/api/v1/", operation>>
      [] i = 3 -> <<"https://api.jobtread.com/", operation>>

\* strategies that look the credentials up again when they are attempted
StrategyCredentials_Reread(c, e) == get_jobtread_credentials(e)

\* the credentials inside payload_strategies: the locals grant_key and org_id
\* read at line 79, whatever the environment is when the POST is made
StrategyCredentials(c, e) == c

\* "Parse response based on strategy": the value returned for a decoded
\* body, or Raise when a `.get` hits a value that is not a dict
Extract(i, body, operation) ==
    IF i = 0 THEN
        DictGet(DictGet(DictGet(body, "organization", EmptyObj),
                        operation, EmptyObj), "nodes", EmptyList)
    ELSE IF i = 1 THEN DictGet(body, "data", body)
    ELSE IF body.t = "list" THEN body ELSE JList(<<body>>)

Continue == [returns |-> FALSE, value |-> JNull]
Return(v) == [returns |-> TRUE, value |-> v]

\* an iteration that parses every response as strategy 1's
StrategyStep_FirstExtractor(i, resp, operation) ==
    IF resp.kind = "http" /\ resp.status = 200 /\ resp.decodes
    THEN LET v == Extract(0, resp.body, operation)
         IN  IF v.t = "raise" THEN Continue ELSE Return(v)
    ELSE Continue

\* one iteration of `for i, strategy in enumerate(payload_strategies)`
\* after the POST has produced resp: return a value or continue
StrategyStep(i, resp, operation) ==
    IF resp.kind # "http" THEN Continue
    ELSE IF resp.status = 200 THEN
        IF ~resp.decodes THEN Continue
        ELSE LET v == Extract(i, resp.body, operation)
             IN  IF v.t = "raise" THEN Continue ELSE Return(v)
    ELSE IF resp.status = 401 THEN Continue
    ELSE IF resp.status = 404 THEN Continue
    ELSE Continue

\* an exhausted loop that gives up with no records
ExhaustedResult_Empty == EmptyList

\* "If all strategies failed, return demo data"
ExhaustedResult == DEMO_PROJECTS

\* the tool name of a request that is a JSON array: not hashable, so it
\* cannot be the dict key `operation:` of the first payload
ArrayName == "['list_jobs']"
Hashable(name) == name # ArrayName

\* "Ensure data is always a list"
EnsureList(d) ==
    IF d.t = "list" THEN d
    ELSE IF Truthy(d) THEN JList(<<d>>) ELSE EmptyList

\* an off-by-one in the finality test
IsFinal_PastEnd(idx, n) == idx = n

IsFinal(idx, n) == idx = n - 1

\* the frame yielded for data[idx] (idx counted from 0)
ResultFrame(id, result, idx, n) ==
    [jsonrpc |-> "2.0", id |-> id,
     result |-> [content |-> << [type |-> "text", text |-> JsonDumps(result)] >>,
                 isFinal |-> IsFinal(idx, n)]]

ErrorFrame(id, e) ==
    [jsonrpc |-> "2.0", id |-> id,
     error |-> [code |-> -32000, message |-> <<"Internal error: ", e>>]]

\* ----------------------------------------------------------- dispatcher
\* an inbound POST: `decodes` is whether `await request.json()` succeeds,
\* `object` whether the decoded value is a JSON object, `body` the envelope
\* the bytes carry (or were meant to carry)
Request(decodes, object, body) ==
    [decodes |-> decodes, object |-> object, body |-> body]

\* a handler that goes on with whatever the body was meant to be
JsonDecodes_Always(req) == TRUE

\* `body = await request.json()` raises for an undecodable body
JsonDecodes(req) == req.decodes

Envelope(hasMethod, m, hasId, id, hasParams, p) ==
    Field(hasMethod, "method", m) @@ Field(hasId, "id", id)
        @@ Field(hasParams, "params", p) @@ ("jsonrpc" :> "2.0")

NoRequest == Request(TRUE, TRUE, EmptyDict)

ParseErrorResponse ==
    [jsonrpc |-> "2.0", id |-> None,
     error |-> [code |-> -32700, message |-> "Parse error"]]

\* `client_protocol = params.get("protocolVersion", "2025-06-18")`
ClientProtocol(params) == Get(params, "protocolVersion", "2025-06-18")

\* a negotiation without the membership test
Supported_Any(v) == TRUE

Supported(v) == \E j \in 1..Len(supported_versions) : supported_versions[j] = v

InitializeResponse(id, client_protocol) ==
    IF ~Supported(client_protocol)
    THEN [jsonrpc |-> "2.0", id |-> id,
          error |-> [code |-> -32604,
                     message |-> <<"Unsupported protocol version: ", client_protocol>>]]
    ELSE [jsonrpc |-> "2.0", id |-> id,
          result |-> [protocolVersion |-> client_protocol,
                      capabilities |-> [tools |-> [listChanged |-> FALSE,
                                                   callable |-> TRUE]],
                      serverInfo |-> [name |-> "JobTread MCP Server",
                                      version |-> "1.1.0"]]]

\* `return {}`
InitializedResponse == <<EmptyDict>>

\* the `tool` dict built for one registry entry
ToolEntry(config) ==
    [name |-> config.name,
     description |-> config.description,
     inputSchema |-> [type |-> "object",
                      properties |-> [j \in 1..Len(config.input) |->
                                         <<config.input[j][1],
                                           [type |-> config.input[j][2]]>>],
                      additionalProperties |-> FALSE]]

\* a catalogue built by prepending instead of appending
RenderTools_Reversed(ops) == [j \in 1..Len(ops) |-> ToolEntry(ops[Len(ops) + 1 - j])]

\* `for tool_name, config in JOBTREAD_OPERATIONS.items(): tools.append(tool)`
RenderTools(ops) == [j \in 1..Len(ops) |-> ToolEntry(ops[j])]

ToolsListResponse(id) ==
    [jsonrpc |-> "2.0", id |-> id, result |-> [tools |-> RenderTools(JOBTREAD_OPERATIONS)]]

UnknownMethodResponse(id, method) ==
    [jsonrpc |-> "2.0", id |-> id,
     error |-> [code |-> -32601, message |-> <<"Method '", method, "' not supported">>]]

\* ---------------------------------------------------------------- inputs
Methods == {"initialize", "notifications/initialized", "tools/list",
            "tools/call", "resources/list"}
RpcIds == {"7", "8"}
Versions == {"2025-03-26", "2025-06-18", "2024-11-05"}
ToolNames == {"list_jobs", "bogus", ArrayName}
EnvValues == {None, "", "a"}
Queries == {"Kitchen", "zzz"}

\* the params a client sends with a method
ParamsFor(m) ==
    IF m = "initialize" THEN {EmptyDict} \cup {[protocolVersion |-> v] : v \in Versions}
    ELSE IF m = "tools/call"
    THEN {[name |-> n] : n \in ToolNames}
         \cup {[name |-> "list_jobs", arguments |-> [query |-> q]] : q \in Queries}
    ELSE {EmptyDict}

Envelopes ==
    UNION {{Envelope(hm, m, hi, id, hp, p) :
                hm \in BOOLEAN, hi \in BOOLEAN, id \in RpcIds, hp \in BOOLEAN,
                p \in ParamsFor(m)} : m \in Methods}

InboundRequests ==
    {Request(TRUE, TRUE, e) : e \in Envelopes}
    \cup {Request(FALSE, FALSE, e) : e \in Envelopes}
    \cup {Request(TRUE, FALSE, EmptyDict)}

\* environments of the process: at most one variable of each list is set
InitEnvs ==
    {e \in [EnvNames -> EnvValues] :
        /\ Cardinality({j \in 1..4 : e[GrantKeyVars[j]] # None}) <= 1
        /\ Cardinality({j \in 1..2 : e[OrgIdVars[j]] # None}) <= 1}

\* ----------------------------------------------------------------- state
VARIABLES
    env,        \* os.environ restricted to the six JOBTREAD_* variables
    served,     \* number of POST /sse/ requests received so far
    pc,         \* "idle", or the position of the running stream_results
    request,    \* the request being (or last) handled
    reply,      \* the JSON body returned by sse(): <<>> or <<dict>>
    raised,     \* sse() raised: the framework answers HTTP 500
    rpc_id,     \* local rpc_id of sse()
    tool_name,  \* local tool_name of sse()
    creds,      \* (grant_key, org_id) read by call_jobtread_api
    i,          \* loop index of call_jobtread_api
    outbound,   \* POSTs issued by client.post for this request
    attempts,   \* outcome of each POST of this request
    response,   \* the latest `response` of call_jobtread_api
    returned,   \* the value returned by call_jobtread_api
    source,     \* which return statement of call_jobtread_api was taken
    data,       \* local data of stream_results after "Ensure data is a list"
    k,          \* number of frames stream_results has yielded from data
    frames,     \* the frames yielded by stream_results for this request
    disconnected \* the client of the running stream has gone away

callVars == <<creds, i, outbound, attempts, response, returned, source, data, k, frames>>
vars == <<env, served, pc, request, reply, raised, rpc_id, tool_name, creds, i,
          outbound, attempts, response, returned, source, data, k, frames,
          disconnected>>

NoCreds == [grant_key |-> None, org_id |-> None]
NoResponse == Resp("none", 0, FALSE, JNull)

\* the state of a process that has served nothing yet
InitLocals ==
    /\ served = 0
    /\ pc = "idle"
    /\ request = NoRequest
    /\ reply = <<>>
    /\ raised = FALSE
    /\ rpc_id = None
    /\ tool_name = None
    /\ creds = NoCreds
    /\ i = 0
    /\ outbound = <<>>
    /\ attempts = <<>>
    /\ response = NoResponse
    /\ returned = JNull
    /\ source = "none"
    /\ data = EmptyList
    /\ k = 0
    /\ frames = <<>>
    /\ disconnected = FALSE

Init ==
    /\ env \in InitEnvs
    /\ InitLocals

\* a frame buffer kept at module level and shared by all requests
FreshCall_SharedFrames ==
    /\ creds' = NoCreds
    /\ i' = 0
    /\ outbound' = <<>>
    /\ attempts' = <<>>
    /\ response' = NoResponse
    /\ returned' = JNull
    /\ source' = "none"
    /\ data' = EmptyList
    /\ k' = 0
    /\ frames' = frames
    /\ disconnected' = FALSE

\* the locals of a fresh request
FreshCall ==
    /\ creds' = NoCreds
    /\ i' = 0
    /\ outbound' = <<>>
    /\ attempts' = <<>>
    /\ response' = NoResponse
    /\ returned' = JNull
    /\ source' = "none"
    /\ data' = EmptyList
    /\ k' = 0
    /\ frames' = <<>>
    /\ disconnected' = FALSE

\* sse() returns without starting a stream
Respond(req, rep, exc, id) ==
    /\ request' = req
    /\ reply' = rep
    /\ raised' = exc
    /\ rpc_id' = id
    /\ tool_name' = None
    /\ served' = served + 1
    /\ pc' = "idle"
    /\ FreshCall
    /\ UNCHANGED env

Accepting == pc = "idle" /\ served < MaxRequests

Method(req) == Get(req.body, "method", None)
RpcId(req) == Get(req.body, "id", None)
Params(req) == Get(req.body, "params", EmptyDict)
\* `args = params.get("arguments", {})`
Args(req) == Get(Params(req), "arguments", EmptyDict)

\* lines 256-265: the body does not decode
SseParseError ==
    /\ Accepting
    /\ \E req \in InboundRequests :
        /\ ~JsonDecodes(req)
        /\ Respond(req, <<ParseErrorResponse>>, FALSE, None)

\* line 267: `body.get` on a decoded body that is not a dict
SseNotAnObject ==
    /\ Accepting
    /\ \E req \in InboundRequests :
        /\ JsonDecodes(req)
        /\ ~req.object
        /\ Respond(req, <<>>, TRUE, None)

SseInitialize ==
    /\ Accepting
    /\ \E req \in InboundRequests :
        /\ JsonDecodes(req)
        /\ req.object
        /\ Method(req) = "initialize"
        /\ Respond(req, <<InitializeResponse(RpcId(req), ClientProtocol(Params(req)))>>,
                   FALSE, RpcId(req))

SseNotificationsInitialized ==
    /\ Accepting
    /\ \E req \in InboundRequests :
        /\ JsonDecodes(req)
        /\ req.object
        /\ Method(req) = "notifications/initialized"
        /\ Respond(req, InitializedResponse, FALSE, RpcId(req))

SseToolsList ==
    /\ Accepting
    /\ \E req \in InboundRequests :
        /\ JsonDecodes(req)
        /\ req.object
        /\ Method(req) = "tools/list"
        /\ Respond(req, <<ToolsListResponse(RpcId(req))>>, FALSE, RpcId(req))

\* lines 329-373: the StreamingResponse is returned, stream_results starts
SseToolsCall ==
    /\ Accepting
    /\ \E req \in InboundRequests :
        /\ JsonDecodes(req)
        /\ req.object
        /\ Method(req) = "tools/call"
        /\ request' = req
        /\ reply' = <<>>
        /\ raised' = FALSE
        /\ rpc_id' = RpcId(req)
        /\ tool_name' = Get(Params(req), "name", None)
        /\ served' = served + 1
        /\ pc' = "call"
        /\ FreshCall
        /\ UNCHANGED env

SseUnknownMethod ==
    /\ Accepting
    /\ \E req \in InboundRequests :
        /\ JsonDecodes(req)
        /\ req.object
        /\ Method(req) \notin {"initialize", "notifications/initialized",
                               "tools/list", "tools/call"}
        /\ Respond(req, <<UnknownMethodResponse(RpcId(req), Method(req))>>,
                   FALSE, RpcId(req))

\* ------------------------------------------- stream_results, step by step
\* how the POST of strategy idx ended, as the log of this request records it:
\* "listed" for a transport error, a timeout, a non-200 status or a 200 whose
\* body is not JSON; "other" for any other exception inside the attempt;
\* "ok" for a 200 whose decoded body the strategy's extractor accepts
AttemptClass(idx, resp, operation) ==
    IF resp.kind \in {"request_error", "timeout"} THEN "listed"
    ELSE IF resp.kind # "http" THEN "other"
    ELSE IF resp.status # 200 \/ ~resp.decodes THEN "listed"
    ELSE IF Extract(idx, resp.body, operation).t = "raise" THEN "other"
    ELSE "ok"

\* call_jobtread_api returns v to stream_results, which normalises it
Returns(v, how) ==
    /\ returned' = v
    /\ source' = how
    /\ data' = EnsureList(v)
    /\ k' = 0
    /\ pc' = "emit"

\* lines 340, 79-83: credentials are read and found missing
CallNoCredentials ==
    /\ pc = "call"
    /\ LET c == get_jobtread_credentials(env)
       IN  /\ CredentialsMissing(c)
           /\ creds' = c
           /\ Returns(DEMO_PROJECTS, "no_credentials")
    /\ UNCHANGED <<env, served, request, reply, raised, rpc_id, tool_name,
                   i, outbound, attempts, response, frames, disconnected>>

\* lines 89-138 raise TypeError for an unhashable operation; lines 365-371
\* turn it into the error frame
CallPayloadError ==
    /\ pc = "call"
    /\ LET c == get_jobtread_credentials(env)
       IN  /\ ~CredentialsMissing(c)
           /\ ~Hashable(tool_name)
           /\ creds' = c
    /\ frames' = Append(frames, ErrorFrame(rpc_id, "unhashable type: 'list'"))
    /\ source' = "raised"
    /\ pc' = "idle"
    /\ UNCHANGED <<env, served, request, reply, raised, rpc_id, tool_name,
                   i, outbound, attempts, response, returned, data, k, disconnected>>

\* lines 85-141: the strategies are built and the loop is entered
CallStartStrategies ==
    /\ pc = "call"
    /\ LET c == get_jobtread_credentials(env)
       IN  /\ ~CredentialsMissing(c)
           /\ Hashable(tool_name)
           /\ creds' = c
    /\ i' = 0
    /\ pc' = "post"
    /\ UNCHANGED <<env, served, request, reply, raised, rpc_id, tool_name,
                   outbound, attempts, response, returned, source, data, k, frames,
                   disconnected>>

\* a loop that tries a timed-out strategy again
NextStrategy_RetryTimeout(idx, resp) ==
    IF resp.kind = "timeout" THEN idx ELSE idx + 1

\* line 141: `continue` moves enumerate() to the next strategy
NextStrategy(idx, resp) == idx + 1

\* lines 141-193: one iteration of the loop, the POST included
TryStrategy ==
    /\ pc = "post"
    /\ \E resp \in UpstreamResponses :
        LET step == StrategyStep(i, resp, tool_name)
        IN  /\ outbound' = Append(outbound,
                                  [strategy |-> i, url |-> StrategyUrl(i, tool_name),
                                   grant_key |-> StrategyCredentials(creds, env).grant_key,
                                   org_id |-> StrategyCredentials(creds, env).org_id,
                                   params |-> Args(request)])
            /\ attempts' = Append(attempts,
                                  [strategy |-> i, class |-> AttemptClass(i, resp, tool_name)])
            /\ response' = resp
            /\ IF step.returns
               THEN /\ Returns(step.value, "strategy")
                    /\ UNCHANGED i
               ELSE IF NextStrategy(i, resp) < NumStrategies
               THEN /\ i' = NextStrategy(i, resp)
                    /\ UNCHANGED <<pc, returned, source, data, k>>
               ELSE /\ Returns(ExhaustedResult, "exhausted")
                    /\ UNCHANGED i
    /\ UNCHANGED <<env, served, request, reply, raised, rpc_id, tool_name, creds, frames,
                   disconnected>>

\* a generator in which serialising the second record raises
EmitFrame_SecondRaises ==
    /\ pc = "emit"
    /\ k < Len(data.v)
    /\ IF k = 1
       THEN /\ frames' = Append(frames, ErrorFrame(rpc_id, "not JSON serializable"))
            /\ pc' = "idle"
            /\ k' = k
       ELSE /\ frames' = Append(frames, ResultFrame(rpc_id, data.v[k + 1], k, Len(data.v)))
            /\ pc' = pc
            /\ k' = k + 1
    /\ UNCHANGED <<env, served, request, reply, raised, rpc_id, tool_name,
                   creds, i, outbound, attempts, response, returned, source, data,
                   disconnected>>

\* lines 349-363: the next record is yielded as a frame
EmitFrame ==
    /\ pc = "emit"
    /\ k < Len(data.v)
    /\ frames' = Append(frames, ResultFrame(rpc_id, data.v[k + 1], k, Len(data.v)))
    /\ k' = k + 1
    /\ UNCHANGED <<env, served, pc, request, reply, raised, rpc_id, tool_name,
                   creds, i, outbound, attempts, response, returned, source, data,
                   disconnected>>

\* the loop over data is over: the generator ends
StreamEnd ==
    /\ pc = "emit"
    /\ k = Len(data.v)
    /\ pc' = "idle"
    /\ UNCHANGED <<env, served, request, reply, raised, rpc_id, tool_name,
                   creds, i, outbound, attempts, response, returned, source, data,
                   k, frames, disconnected>>

Next ==
    \/ SseParseError
    \/ SseNotAnObject
    \/ SseInitialize
    \/ SseNotificationsInitialized
    \/ SseToolsList
    \/ SseToolsCall
    \/ SseUnknownMethod
    \/ CallNoCredentials
    \/ CallPayloadError
    \/ CallStartStrategies
    \/ TryStrategy
    \/ EmitFrame
    \/ StreamEnd

Spec == Init /\ [][Next]_vars

\* the writes of a credential rotation: the grant key moves between two
\* values, the organization id is set or emptied
RotatedVars == {"JOBTREAD_GRANT_KEY", "JOBTREAD_ORG_ID"}
Rotations == {<<"JOBTREAD_GRANT_KEY", "a">>, <<"JOBTREAD_GRANT_KEY", "b">>,
              <<"JOBTREAD_ORG_ID", "a">>, <<"JOBTREAD_ORG_ID", "">>}

\* the environment of the process is changed (os.environ is process-wide
\* state that call_jobtread_api reads afresh on every call)
RotateEnv ==
    /\ \E w \in Rotations :
        /\ env[w[1]] # w[2]
        /\ env' = [env EXCEPT ![w[1]] = w[2]]
    /\ UNCHANGED <<served, pc, request, reply, raised, rpc_id, tool_name, creds, i,
                   outbound, attempts, response, returned, source, data, k, frames,
                   disconnected>>

InitRotate ==
    /\ env = [n \in EnvNames |-> IF n \in RotatedVars THEN "a" ELSE None]
    /\ InitLocals

NextRotate == Next \/ RotateEnv

SpecRotate == InitRotate /\ [][NextRotate]_vars

\* every environment over two distinct values
AllEnvs == [EnvNames -> EnvValues \cup {"b"}]

InitCreds ==
    /\ env \in AllEnvs
    /\ InitLocals

\* lines 195-205: GET /health resolves the credentials and reports on them
Health ==
    /\ Accepting
    /\ LET c == get_jobtread_credentials(env)
       IN  /\ creds' = c
           /\ reply' = << [status |-> "ok",
                           message |-> "JobTread MCP server running",
                           credentials_found |-> ~CredentialsMissing(c),
                           grant_key_present |-> c.grant_key \notin {None, ""},
                           org_id_present |-> c.org_id \notin {None, ""}] >>
    /\ served' = served + 1
    /\ UNCHANGED <<env, pc, request, raised, rpc_id, tool_name, i, outbound,
                   attempts, response, returned, source, data, k, frames,
                   disconnected>>

SpecCreds == InitCreds /\ [][Health]_vars

\* ---------------------------------------------- every POST completes
\* httpx gives each POST a 30 s timeout (line 140), so an issued POST ends
\* in a response or an exception and the loop iteration is carried out
LiveEnvs ==
    {[n \in EnvNames |-> None],
     [n \in EnvNames |-> IF n \in RotatedVars THEN "a" ELSE None]}

InitLive ==
    /\ env \in LiveEnvs
    /\ InitLocals

SpecLive == InitLive /\ [][Next]_vars /\ WF_vars(TryStrategy)

\* the client closes the connection while stream_results is running; the
\* generator reads no connection state (request.is_disconnected() is called
\* by the GET /sse/ heartbeat only), so no other action looks at it
ClientDisconnect ==
    /\ pc \in {"call", "post", "emit"}
    /\ ~disconnected
    /\ disconnected' = TRUE
    /\ UNCHANGED <<env, served, pc, request, reply, raised, rpc_id, tool_name,
                   creds, i, outbound, attempts, response, returned, source,
                   data, k, frames>>

NextDisconnect == Next \/ ClientDisconnect

SpecDisconnect == Init /\ [][NextDisconnect]_vars

\* ------------------------------------------------------------ properties
\* the request in hand is a tools/call that reached its handler
IsToolsCall ==
    /\ served > 0
    /\ request.decodes
    /\ request.object
    /\ Method(request) = "tools/call"

\* strategies 0..n-1 were POSTed once each, in order, and nothing else
CalledExactly(n) ==
    /\ Len(outbound) = n
    /\ \A j \in 1..n : outbound[j].strategy = j - 1

\* frame j is a result frame (no error member) carrying record j of list
CarriesRecord(frame, rec) ==
    /\ "result" \in DOMAIN frame
    /\ "error" \notin DOMAIN frame
    /\ Len(frame.result.content) = 1
    /\ frame.result.content[1].text = JsonDumps(rec)

\* C1: with credentials present, when strategies 1..k-1 fail (transport
\* error, timeout, non-200 status, 200 with a non-JSON body) and strategy k
\* succeeds, call_jobtread_api returns exactly what strategy k's extractor
\* yields and no POST is made for strategies k+1..4.
C1_FirstSuccessWins ==
    IsToolsCall =>
        \A n \in 1..Len(attempts) :
            (/\ attempts[n].class = "ok"
             /\ \A j \in 1..(n - 1) : attempts[j].class = "listed")
            => /\ n = Len(attempts)
               /\ pc \in {"emit", "idle"}
               /\ source = "strategy"
               /\ returned = Extract(n - 1, response.body, tool_name)
               /\ CalledExactly(n)

\* three listed failures, then the fourth strategy answers and is streamed
C1_Witness ==
    /\ IsToolsCall
    /\ pc = "idle"
    /\ Len(attempts) = 4
    /\ \A j \in 1..3 : attempts[j].class = "listed"
    /\ attempts[4].class = "ok"
    /\ returned = JList(Records(MaxRecords))
    /\ Len(frames) = MaxRecords

GrantUnset(e) == \A j \in 1..4 : e[GrantKeyVars[j]] \in {None, ""}
OrgUnset(e) == \A j \in 1..2 : e[OrgIdVars[j]] \in {None, ""}

\* C2: when the grant key or the organization id (or both) is empty or
\* unset, call_jobtread_api returns DEMO_PROJECTS and issues no POST; a
\* half-present pair behaves like an absent one.
C2_AbsentCredentialsDemo ==
    (IsToolsCall /\ (GrantUnset(env) \/ OrgUnset(env)))
    => /\ outbound = <<>>
       /\ pc # "post"
       /\ pc # "call" => (returned = DEMO_PROJECTS /\ source = "no_credentials")

\* only the grant key is set, and the demo records went out
C2_Witness ==
    /\ IsToolsCall
    /\ ~GrantUnset(env)
    /\ OrgUnset(env)
    /\ pc = "idle"
    /\ returned = DEMO_PROJECTS
    /\ Len(frames) = 2

AllStrategiesFailed ==
    /\ Len(attempts) = NumStrategies
    /\ \A j \in 1..NumStrategies : attempts[j].class # "ok"

\* C3: with credentials present, when all four strategies fail in any way,
\* call_jobtread_api raises nothing and returns DEMO_PROJECTS, and the
\* tools/call stream is made of result frames carrying the sample records,
\* with no error frame.
C3_ExhaustionDemo ==
    (IsToolsCall /\ AllStrategiesFailed)
    => /\ pc \in {"emit", "idle"}
       /\ source = "exhausted"
       /\ returned = DEMO_PROJECTS
       /\ ~raised
       /\ Len(frames) <= Len(DEMO_PROJECTS.v)
       /\ \A j \in 1..Len(frames) : CarriesRecord(frames[j], DEMO_PROJECTS.v[j])
       /\ pc = "idle" => Len(frames) = Len(DEMO_PROJECTS.v)

\* a mix of a timeout, a 401, an unexpected exception and an extractor that
\* raises, after which both sample records were streamed
C3_Witness ==
    /\ IsToolsCall
    /\ AllStrategiesFailed
    /\ \E j \in 1..4 : attempts[j].class = "other"
    /\ \E j \in 1..4 : attempts[j].class = "listed"
    /\ pc = "idle"
    /\ Len(frames) = 2

\* the request in hand is a JSON object with method m
IsHandled(m) ==
    /\ served > 0
    /\ request.decodes
    /\ request.object
    /\ "method" \in DOMAIN request.body
    /\ request.body.method = m

\* the id the client sent, None for a notification
RequestId == IF "id" \in DOMAIN request.body THEN request.body.id ELSE None

\* the protocolVersion the client asked for, the latest one if it named none
RequestedVersion ==
    IF "params" \in DOMAIN request.body
       /\ "protocolVersion" \in DOMAIN request.body.params
    THEN request.body.params.protocolVersion
    ELSE "2025-06-18"

\* sse() answered with one JSON object and started no tool execution
SingleReply ==
    /\ Len(reply) = 1
    /\ ~raised
    /\ pc = "idle"
    /\ frames = <<>>
    /\ outbound = <<>>
    /\ source = "none"
    /\ creds = NoCreds

\* C4: initialize echoes the requested protocolVersion when it is 2025-03-26
\* or 2025-06-18 (2025-06-18 when none is given); any other version gets the
\* -32604 error with the request id and no result, and nothing else happens
\* (the handler keeps no session state: no credentials read, no POST, no
\* frame).
C4_InitializeNegotiation ==
    IsHandled("initialize") =>
        /\ SingleReply
        /\ reply[1].id = RequestId
        /\ IF RequestedVersion \in {"2025-03-26", "2025-06-18"}
           THEN /\ "result" \in DOMAIN reply[1]
                /\ "error" \notin DOMAIN reply[1]
                /\ reply[1].result.protocolVersion = RequestedVersion
           ELSE /\ "error" \in DOMAIN reply[1]
                /\ "result" \notin DOMAIN reply[1]
                /\ reply[1].error.code = -32604

\* an initialize for 2024-11-05 was refused under its own id
C4_Witness ==
    /\ IsHandled("initialize")
    /\ RequestedVersion = "2024-11-05"
    /\ RequestId = "8"
    /\ "error" \in DOMAIN reply[1]

\* C5: notifications/initialized gets no response body at all, not even an
\* empty object.
C5_NoReplyToInitialized ==
    IsHandled("notifications/initialized") => (reply = <<>> /\ frames = <<>>)

\* C6: a tools/call naming a tool that is not in JOBTREAD_OPERATIONS gets a
\* single invalid-tool error; no result frame is emitted and the upstream
\* adapter is not invoked (stated of the finished response to a name that is
\* a string or missing).
C6_UnknownToolRejected ==
    (IsToolsCall /\ Hashable(tool_name) /\ tool_name \notin RegisteredTools /\ pc = "idle")
    => /\ source = "none"
       /\ outbound = <<>>
       /\ \A j \in 1..Len(frames) : "result" \notin DOMAIN frames[j]
       /\ Len(reply) = 1
       /\ "error" \in DOMAIN reply[1]
       /\ reply[1].error.code \in {-32600, -32601, -32602}

\* C7: a tools/call whose result list has M records streams exactly M frames
\* in record order, one record each, all with the request's id, isFinal true
\* on frame M only; no frame for M = 0.
C7_OneFramePerRecord ==
    (IsToolsCall /\ source \in {"no_credentials", "strategy", "exhausted"})
    => LET M == Len(data.v)
       IN  /\ returned.t = "list" => data = returned
           /\ Len(frames) <= M
           /\ \A j \in 1..Len(frames) :
                /\ CarriesRecord(frames[j], data.v[j])
                /\ frames[j].id = RequestId
                /\ frames[j].result.isFinal = (j = M)
           /\ pc = "idle" => Len(frames) = M

\* a strategy answered with the longest list and all of it was streamed
C7_Witness ==
    /\ IsToolsCall
    /\ source = "strategy"
    /\ pc = "idle"
    /\ RequestId = "8"
    /\ returned = JList(Records(MaxRecords))
    /\ Len(frames) = MaxRecords
    /\ frames[MaxRecords].result.isFinal
    /\ ~frames[1].result.isFinal

\* the method is none of the four the dispatcher knows
IsUnknownMethod ==
    /\ served > 0
    /\ request.decodes
    /\ request.object
    /\ Method(request) \notin {"initialize", "notifications/initialized",
                               "tools/list", "tools/call"}

\* C8: an unknown method gets the -32601 error with the request id when the
\* envelope has an id, and nothing at all when it is a notification.
C8_UnknownMethod ==
    IsUnknownMethod =>
        IF "id" \in DOMAIN request.body
        THEN /\ Len(reply) = 1
             /\ "error" \in DOMAIN reply[1]
             /\ reply[1].error.code = -32601
             /\ reply[1].id = request.body.id
        ELSE reply = <<>>

DeclarationOrder ==
    <<"list_jobs", "get_job", "list_customers", "get_customer", "list_documents">>

\* C9: tools/list always returns the whole registry as name, description and
\* inputSchema, in declaration order, with unique names, whatever came
\* before, and does nothing else.
C9_ToolsListDeterministic ==
    IsHandled("tools/list") =>
        /\ SingleReply
        /\ reply[1].id = RequestId
        /\ "error" \notin DOMAIN reply[1]
        /\ LET tools == reply[1].result.tools
           IN  /\ Len(tools) = Len(DeclarationOrder)
               /\ \A j \in 1..Len(tools) :
                    /\ DOMAIN tools[j] = {"name", "description", "inputSchema"}
                    /\ tools[j].name = DeclarationOrder[j]
                    /\ tools[j].description = JOBTREAD_OPERATIONS[j].description
                    /\ Len(tools[j].inputSchema.properties)
                         = Len(JOBTREAD_OPERATIONS[j].input)
               /\ \A a, b \in 1..Len(tools) : tools[a].name = tools[b].name => a = b

\* a tools/list served as the second request of the process
C9_Witness ==
    /\ IsHandled("tools/list")
    /\ served = 2
    /\ Len(reply) = 1
    /\ Len(reply[1].result.tools) = 5

\* C10: a body that does not decode gets exactly one -32700 error with a null
\* id, whatever method it was meant to carry, and no handler runs.
C10_ParseError ==
    (served > 0 /\ ~request.decodes)
    => /\ SingleReply
       /\ DOMAIN reply[1] = {"jsonrpc", "id", "error"}
       /\ reply[1].error.code = -32700
       /\ reply[1].id = None

\* a broken tools/call body that carried an id was answered with a null id
C10_Witness ==
    /\ served > 0
    /\ ~request.decodes
    /\ Method(request) = "tools/call"
    /\ RequestId = "7"
    /\ Len(reply) = 1
    /\ reply[1].id = None

\* the query argument folded to lower case
LowerCase(q) == IF q = "Kitchen" THEN "kitchen" ELSE q

\* the lower-case words of json.dumps(rec) for the two sample records
SerializedWords(rec) ==
    IF rec = DEMO_PROJECTS.v[1]
    THEN {"id", "demo_1", "name", "smith", "kitchen", "remodel", "budget",
          "50000", "status", "in_progress"}
    ELSE {"id", "demo_2", "name", "techcorp", "office", "renovation", "budget",
          "250000", "status", "planning"}

\* the sample records a search for q selects: the matching ones, all of them
\* when none matches
SearchSelection(q) ==
    LET Hit(rec) == LowerCase(q) \in SerializedWords(rec)
        hits == SelectSeq(DEMO_PROJECTS.v, Hit)
    IN  IF hits = <<>> THEN DEMO_PROJECTS.v ELSE hits

\* C11: a tools/call with arguments.query = q and no credentials emits exactly
\* the sample records whose serialised form contains q (case-insensitively),
\* or all sample records when none matches.
C11_QueryFiltersSamples ==
    (/\ IsToolsCall
     /\ "query" \in DOMAIN Args(request)
     /\ source = "no_credentials"
     /\ pc = "idle")
    => LET sel == SearchSelection(Args(request).query)
       IN  /\ Len(frames) = Len(sel)
           /\ \A j \in 1..Len(sel) : CarriesRecord(frames[j], sel[j])

\* call_jobtread_api has returned to stream_results
AdapterReturned == source \in {"no_credentials", "strategy", "exhausted"}

\* C12: whatever strategy succeeds and whatever JSON shape the body has, the
\* value call_jobtread_api returns is a list (a single object is wrapped in a
\* one-element list before it is returned).
C12_AdapterReturnsList ==
    (IsToolsCall /\ AdapterReturned) => returned.t = "list"

\* the body has no organization/<operation>/nodes path
PathMissing(body, operation) ==
    /\ body.t = "obj"
    /\ \/ "organization" \notin DOMAIN body.v
       \/ /\ body.v.organization.t = "obj"
          /\ \/ operation \notin DOMAIN body.v.organization.v
             \/ /\ body.v.organization.v[operation].t = "obj"
                /\ "nodes" \notin DOMAIN body.v.organization.v[operation].v

\* a decoded body from which the extractor of strategy idx gets no record:
\* no nodes path for the first strategy, a null `data` for the second
NothingUsable(idx, body, operation) ==
    \/ idx = 0 /\ PathMissing(body, operation)
    \/ /\ idx = 1
       /\ body.t = "obj"
       /\ "data" \in DOMAIN body.v
       /\ body.v.data.t = "null"

\* C13: when strategy k gets a 200 with a decodable body from which its
\* extractor obtains nothing usable, the adapter does not return at strategy
\* k: it goes on to strategy k+1.
C13_EmptyExtractionContinues ==
    (/\ IsToolsCall
     /\ Len(attempts) \in 1..(NumStrategies - 1)
     /\ response.kind = "http" /\ response.status = 200 /\ response.decodes
     /\ NothingUsable(Len(attempts) - 1, response.body, tool_name))
    => /\ pc = "post"
       /\ i = Len(attempts)
       /\ source = "none"

\* C14: the emission loop checks for disconnection before each frame: once
\* the client of a running stream has disconnected, no further frame is
\* produced.
C14_NoFrameAfterDisconnect ==
    [][(disconnected /\ pc # "idle") => frames' = frames]_vars

\* the value of the first variable of the list that is set and not empty
FirstNonEmpty(names, e) ==
    LET set == {j \in 1..Len(names) : e[names[j]] \notin {None, ""}}
        first == CHOOSE j \in set : \A n \in set : j <= n
    IN  IF set = {} THEN None ELSE e[names[first]]

\* C15: the grant key is the value of the first non-empty variable among
\* JOBTREAD_GRANT_KEY, JOBTREAD_ACCESS_TOKEN, JOBTREAD_API_KEY,
\* JOBTREAD_TOKEN and the organization id the first non-empty of
\* JOBTREAD_ORG_ID, JOBTREAD_ORGANIZATION_ID; an empty variable is skipped,
\* a later one never overrides an earlier non-empty one, and with none set
\* the value is empty or None.
C15_FirstNonEmptyWins ==
    served > 0 =>
        /\ IF FirstNonEmpty(GrantKeyVars, env) = None
           THEN creds.grant_key \in {None, ""}
           ELSE creds.grant_key = FirstNonEmpty(GrantKeyVars, env)
        /\ IF FirstNonEmpty(OrgIdVars, env) = None
           THEN creds.org_id \in {None, ""}
           ELSE creds.org_id = FirstNonEmpty(OrgIdVars, env)

\* an empty and an unset variable are skipped, and the later of two set
\* variables does not win
C15_Witness ==
    /\ served > 0
    /\ env["JOBTREAD_GRANT_KEY"] = ""
    /\ env["JOBTREAD_ACCESS_TOKEN"] = "a"
    /\ env["JOBTREAD_API_KEY"] = "b"
    /\ env["JOBTREAD_TOKEN"] = "b"
    /\ env["JOBTREAD_ORG_ID"] = "b"
    /\ env["JOBTREAD_ORGANIZATION_ID"] = "a"
    /\ creds = [grant_key |-> "a", org_id |-> "b"]

\* C16: call_jobtread_api reads the credentials once, when it is called and
\* before any strategy: every POST of the call carries that pair even if the
\* environment changes meanwhile, the pair is not read again during the call,
\* and each call reads the environment as it is when the call starts.
C16_CredentialSnapshot ==
    /\ [](IsToolsCall =>
            \A j \in 1..Len(outbound) :
                /\ outbound[j].grant_key = creds.grant_key
                /\ outbound[j].org_id = creds.org_id)
    /\ [][(pc = "call" /\ pc' # "call") => (creds' = get_jobtread_credentials(env))]_vars
    /\ [][(pc \in {"post", "emit"}) => (creds' = creds)]_vars

\* the second call of the process runs with a rotated key, and the environment
\* has changed again while its strategies are being tried
C16_Witness ==
    /\ IsToolsCall
    /\ served = 2
    /\ pc = "post"
    /\ Len(outbound) >= 1
    /\ creds = [grant_key |-> "b", org_id |-> "a"]
    /\ env["JOBTREAD_GRANT_KEY"] = "a"
    /\ env["JOBTREAD_ORG_ID"] = ""

\* what the client sees when sse() returns
Outcome ==
    IF raised THEN <<"http500", 0>>
    ELSE IF pc = "call" THEN <<"stream", 0>>
    ELSE IF reply = <<>> THEN <<"none", 0>>
    ELSE IF "error" \in DOMAIN reply[1] THEN <<"error", reply[1].error.code>>
    ELSE IF "result" \in DOMAIN reply[1] THEN <<"result", 0>>
    ELSE <<"empty", 0>>

\* the outcome the request alone determines
OutcomeOf(req) ==
    IF ~req.decodes THEN <<"error", -32700>>
    ELSE IF ~req.object THEN <<"http500", 0>>
    ELSE LET m == IF "method" \in DOMAIN req.body THEN req.body.method ELSE None
             v == IF "params" \in DOMAIN req.body
                     /\ "protocolVersion" \in DOMAIN req.body.params
                  THEN req.body.params.protocolVersion
                  ELSE "2025-06-18"
         IN  CASE m = "initialize" ->
                    IF v \in {"2025-03-26", "2025-06-18"}
                    THEN <<"result", 0>> ELSE <<"error", -32604>>
               [] m = "notifications/initialized" -> <<"empty", 0>>
               [] m = "tools/list" -> <<"result", 0>>
               [] m = "tools/call" -> <<"stream", 0>>
               [] OTHER -> <<"error", -32601>>

TransportFailure == raised

\* C18: an unexpected exception during dispatch or tool execution never
\* leaves the handler: a decodable body that is not a JSON object is answered
\* with one error response, and an exception in the tool is answered with the
\* single internal-error frame carrying the request id.
C18_ExceptionsBecomeInternalError ==
    /\ ~TransportFailure
    /\ (served > 0 /\ JsonDecodes(request) /\ ~request.object)
        => (Len(reply) = 1 /\ "error" \in DOMAIN reply[1])
    /\ (source = "raised")
        => (frames = <<ErrorFrame(rpc_id, "unhashable type: 'list'")>>)

\* the last attempt made did not produce the call's return value
LastAttemptFailed ==
    /\ Len(attempts) > 0
    /\ attempts[Len(attempts)].class # "ok"

\* C19: with credentials present the strategies are attempted in index order
\* 0, 1, 2, 3, each at most once, so at most four POSTs leave; a failed or
\* timed-out attempt that is not the last is followed by the next strategy;
\* and once its POSTs complete the call returns.
C19_BoundedOrderedAttempts ==
    /\ [](/\ Len(outbound) <= NumStrategies
          /\ \A j \in 1..Len(outbound) : outbound[j].strategy = j - 1)
    /\ [](pc = "post" => (i = Len(outbound) /\ i < NumStrategies))
    /\ [][(pc = "post" /\ LastAttemptFailed' /\ i + 1 < NumStrategies)
            => (pc' = "post" /\ i' = i + 1)]_vars
    /\ \A n \in 0..(NumStrategies - 1) :
          (pc = "post" /\ i = n) ~> (Len(outbound) > n)
    /\ (pc = "post") ~> (pc # "post")

\* four POSTs went out, the last one timed out, and the call has returned
C19_Witness ==
    /\ Len(outbound) = NumStrategies
    /\ outbound[NumStrategies].strategy = NumStrategies - 1
    /\ response.kind = "timeout"
    /\ source = "exhausted"
    /\ pc # "post"

IsResultFrame(f) == "result" \in DOMAIN f

IsErrorFrame(f) == "error" \in DOMAIN f /\ f.error.code = -32000

\* C20: at every point of a tools/call response stream the frames sent so far
\* are either all result frames or exactly one error frame with code -32000:
\* no error frame comes after a result frame and nothing comes after an error
\* frame.
C20_ErrorFrameStandsAlone ==
    \/ \A j \in 1..Len(frames) : IsResultFrame(frames[j])
    \/ (Len(frames) = 1 /\ IsErrorFrame(frames[1]))

\* the tool raised before any record was yielded and the stream has ended
\* with the single error frame
C20_Witness ==
    /\ IsToolsCall
    /\ pc = "idle"
    /\ source = "raised"
    /\ Len(frames) = 1
    /\ IsErrorFrame(frames[1])
    /\ frames[1].id = rpc_id

====
